---- MODULE Spec2Model ----
(***************************************************************************)
(* Model of the promo calculator: the client pricing engine                *)
(* (lib/calculator), the useCalculator session hook with its debounced     *)
(* recomputation, and the server-side subscription confirmation.           *)
(*                                                                         *)
(* Number representation.  Money is an integer count of Mill-ths of a      *)
(* currency unit; fractions (discount, bulk percentage, down-payment       *)
(* percent) are integers per Mill; correctionPercent is in tenths of a     *)
(* percent.  With whole-unit prices every product the engine forms is      *)
(* exact in this representation.  Quotients (monthly payment, gift-session *)
(* value) are kept as a numerator/denominator pair.  The binary rounding   *)
(* of the JavaScript number type is not represented.                       *)
(***************************************************************************)
EXTENDS Integers, Sequences, FiniteSets, TLC

Mill == 1000

Rub(n) == n * Mill

Max2(a, b) == IF a >= b THEN a ELSE b

Min2(a, b) == IF a <= b THEN a ELSE b

\* JavaScript `a || d` on numbers: a falsy (0 / undefined, both 0 here) left
\* operand yields the right operand.
JsOr(a, d) == IF a = 0 THEN d ELSE a

\* Math.round on a money amount: nearest whole unit, halves upwards.
MathRound(m) == ((m + (Mill \div 2)) \div Mill) * Mill

\* m * f for a fraction f given per Mill (rounded down to the representation;
\* exact whenever m is a whole number of units).
MulFrac(m, f) == (m \div Mill) * f + ((m % Mill) * f) \div Mill

RECURSIVE Gcd(_, _)
Gcd(a, b) == IF b = 0 THEN a ELSE Gcd(b, a % b)

Abs(a) == IF a < 0 THEN -a ELSE a

\* The quotient n / d (d > 0) in lowest terms.
Quot(n, d) ==
  LET g == Gcd(Abs(n), d)
  IN  IF n = 0 THEN [num |-> 0, den |-> 1] ELSE [num |-> n \div g, den |-> d \div g]

RECURSIVE SelectSeqBy(_, _)
SelectSeqBy(s, keep) ==
  IF s = <<>> THEN <<>>
  ELSE IF keep[Head(s)] THEN <<Head(s)>> \o SelectSeqBy(Tail(s), keep)
       ELSE SelectSeqBy(Tail(s), keep)

PackageTypes == {"vip", "standard", "economy"}

NoPackage == "none"

(***************************************************************************)
(* Configuration: the package rows seeded by the server and the calculator *)
(* settings as the hook hands them to the engine.                          *)
(***************************************************************************)
Packages ==
  [t \in PackageTypes |->
     CASE t = "vip" ->
            [discount |-> 300, minCost |-> Rub(25000), minDownPaymentPercent |-> 1000,
             requiresFullPayment |-> TRUE, giftSessions |-> 3]
       [] t = "standard" ->
            [discount |-> 250, minCost |-> Rub(30000), minDownPaymentPercent |-> 500,
             requiresFullPayment |-> FALSE, giftSessions |-> 1]
       [] OTHER ->
            [discount |-> 200, minCost |-> Rub(10000), minDownPaymentPercent |-> 10,
             requiresFullPayment |-> FALSE, giftSessions |-> 0]]

\* The values stored in the configuration table; 0 stands for an absent key.
ConfigStored ==
  [minimumDownPayment |-> Rub(5000), bulkDiscountThreshold |-> 15,
   bulkDiscountPercentage |-> 25, certificateDiscountAmount |-> Rub(3000),
   certificateMinCourseAmount |-> Rub(25000)]

ConfigAbsent ==
  [minimumDownPayment |-> 0, bulkDiscountThreshold |-> 0,
   bulkDiscountPercentage |-> 0, certificateDiscountAmount |-> 0,
   certificateMinCourseAmount |-> 0]

\* queryFn of the calculator-settings query: every key falls back with ||.
calculatorSettingsOf(cfg) ==
  [minimumDownPayment |-> JsOr(cfg.minimumDownPayment, Rub(5000)),
   bulkDiscountThreshold |-> JsOr(cfg.bulkDiscountThreshold, 15),
   bulkDiscountPercentage |-> JsOr(cfg.bulkDiscountPercentage, 50),
   certificateDiscountAmount |-> JsOr(cfg.certificateDiscountAmount, Rub(3000)),
   certificateMinCourseAmount |-> JsOr(cfg.certificateMinCourseAmount, Rub(25000))]

(***************************************************************************)
(* The pricing engine, calculatePackagePricing, for one package.           *)
(*   params: downPayment, installmentMonths, usedCertificate,              *)
(*           procedureCount, correctionPercent (tenths of a percent)       *)
(*   pc:     the packageConfig entry (discount, dynamicDiscount, minCost,  *)
(*           requiresFullPayment, giftSessions)                            *)
(***************************************************************************)
Entry(t, n, d) == [type |-> t, amount |-> n, den |-> d]

\* discount = max(discount, dynamicDiscount) when a dynamic discount is set.
PackageDiscountRate(pc) ==
  IF pc.dynamicDiscount # 0 THEN Max2(pc.discount, pc.dynamicDiscount) ELSE pc.discount

\* A variant that needs a baseCost above the minimum course amount.
CertificateAboveMinimum(baseCost, usedCertificate, settings) ==
  IF usedCertificate /\ baseCost > JsOr(settings.certificateMinCourseAmount, Rub(25000))
  THEN JsOr(settings.certificateDiscountAmount, Rub(3000)) ELSE 0

CertificateDiscount(baseCost, usedCertificate, settings) ==
  LET certificateDiscountAmount == JsOr(settings.certificateDiscountAmount, Rub(3000))
      certificateMinAmount == JsOr(settings.certificateMinCourseAmount, Rub(25000))
  IN  IF usedCertificate /\ baseCost >= certificateMinAmount
      THEN certificateDiscountAmount ELSE 0

\* A variant that needs more sessions than the threshold.
QualifiesAboveThreshold(maxSessionCount, settings) ==
  maxSessionCount > JsOr(settings.bulkDiscountThreshold, 15)

QualifiesForBulkDiscount(maxSessionCount, settings) ==
  maxSessionCount >= JsOr(settings.bulkDiscountThreshold, 15)

BulkDiscount(baseCost, maxSessionCount, settings) ==
  IF QualifiesForBulkDiscount(maxSessionCount, settings)
  THEN MulFrac(baseCost, JsOr(settings.bulkDiscountPercentage, 25)) ELSE 0

\* Math.min(correctionPercent, 10) * baseCost * 0.01
CorrectionDiscount(baseCost, correctionPercent) ==
  MulFrac(baseCost, Min2(correctionPercent, 100))

GiftSessionValue(baseCost, maxSessionCount, giftSessions) ==
  IF maxSessionCount > 0 THEN Quot(baseCost * giftSessions, maxSessionCount)
  ELSE Quot(0, 1)

\* A variant that counts the gift sessions among the savings.
TotalSavingsWithGifts(actualDiscounts, giftSessionValue) ==
  actualDiscounts + giftSessionValue.num \div giftSessionValue.den

\* totalSavings = actualDiscounts: only actual discounts, not gifts.
TotalSavings(actualDiscounts, giftSessionValue) == actualDiscounts

FinalCost(baseCost, actualDiscounts) == baseCost - actualDiscounts

MonthlyPayment(finalCost, downPayment, installmentMonths, requiresFullPayment) ==
  LET remainingAmount == finalCost - downPayment
  IN  IF installmentMonths > 0 /\ ~requiresFullPayment
      THEN Quot(remainingAmount, installmentMonths) ELSE Quot(0, 1)

\* A variant that leaves the certificate out of the list.
AppliedDiscountsNoCertificate(packageDiscount, qualifies, additionalDiscount, certificateDiscount, correctionDiscount, giftSessionValue) ==
  <<Entry("package", packageDiscount, 1)>>
  \o (IF qualifies /\ additionalDiscount > 0
      THEN <<Entry("bulk", additionalDiscount, 1)>> ELSE <<>>)
  \o (IF correctionDiscount > 0
      THEN <<Entry("correction", correctionDiscount, 1)>> ELSE <<>>)
  \o (IF giftSessionValue.num > 0
      THEN <<Entry("gift_sessions", giftSessionValue.num, giftSessionValue.den)>>
      ELSE <<>>)

AppliedDiscounts(packageDiscount, qualifies, additionalDiscount, certificateDiscount, correctionDiscount, giftSessionValue) ==
  <<Entry("package", packageDiscount, 1)>>
  \o (IF qualifies /\ additionalDiscount > 0
      THEN <<Entry("bulk", additionalDiscount, 1)>> ELSE <<>>)
  \o (IF certificateDiscount > 0
      THEN <<Entry("certificate", certificateDiscount, 1)>> ELSE <<>>)
  \o (IF correctionDiscount > 0
      THEN <<Entry("correction", correctionDiscount, 1)>> ELSE <<>>)
  \o (IF giftSessionValue.num > 0
      THEN <<Entry("gift_sessions", giftSessionValue.num, giftSessionValue.den)>>
      ELSE <<>>)

\* A variant that needs a baseCost above the package's minCost.
AvailableAboveMinCost(baseCost, pc) == baseCost > pc.minCost

\* isAvailable = baseCost >= packageData.minCost
IsAvailable(baseCost, pc) == baseCost >= pc.minCost

PackagePricing(baseCost, params, pc, settings) ==
  LET discount == PackageDiscountRate(pc)
      certificateDiscount == CertificateDiscount(baseCost, params.usedCertificate, settings)
      maxSessionCount == JsOr(params.procedureCount, 1)
      qualifiesForBulkDiscount == QualifiesForBulkDiscount(maxSessionCount, settings)
      additionalDiscount == BulkDiscount(baseCost, maxSessionCount, settings)
      correctionDiscount == CorrectionDiscount(baseCost, params.correctionPercent)
      packageDiscount == MulFrac(baseCost, discount)
      giftSessionValue == GiftSessionValue(baseCost, maxSessionCount, pc.giftSessions)
      actualDiscounts ==
        packageDiscount + certificateDiscount + additionalDiscount + correctionDiscount
      totalSavings == TotalSavings(actualDiscounts, giftSessionValue)
      finalCost == FinalCost(baseCost, actualDiscounts)
      monthlyPayment ==
        MonthlyPayment(finalCost, params.downPayment, params.installmentMonths,
                       pc.requiresFullPayment)
      isAvailable == IsAvailable(baseCost, pc)
      shortage == pc.minCost - baseCost
  IN  [isAvailable |-> isAvailable,
       unavailableReason |->
         IF ~isAvailable THEN [shortage |-> shortage, minimum |-> pc.minCost]
         ELSE [shortage |-> 0, minimum |-> 0],
       finalCost |-> finalCost,
       totalSavings |-> totalSavings,
       monthlyPayment |-> IF isAvailable THEN monthlyPayment ELSE Quot(0, 1),
       appliedDiscounts |->
         AppliedDiscounts(packageDiscount, qualifiesForBulkDiscount, additionalDiscount,
                          certificateDiscount, correctionDiscount, giftSessionValue)]

\* calculatePackagePricing: one PackageData per key of packageConfig.
calculatePackagePricing(baseCost, params, calculatorSettings) ==
  [baseCost |-> baseCost,
   packages |-> [t \in DOMAIN params.packageConfig |->
                   PackagePricing(baseCost, params, params.packageConfig[t],
                                  calculatorSettings)],
   totalProcedures |-> params.totalProcedures,
   freeZonesValue |-> params.freeZonesValue]


(***************************************************************************)
(* The service catalogue and the values a master enters.                   *)
(***************************************************************************)
ServiceIds == {1, 2}

\* priceMin of the catalogue rows, whole currency units.
PriceMin(id) == IF id = 1 THEN Rub(3000) ELSE Rub(1333)

SessionChoices == {14, 15}

MonthChoices == {2, 3}

TypedPayments == {Rub(3000), Rub(8000)}

MaxDragTimers == 1

MaxLag == 1

MaxEvents == 5

MaxFreeZones == 1

VARIABLES
  \* useCalculator state
  selectedServices, procedureCount, downPayment, installmentMonths,
  usedCertificate, freeZones, selectedPackage, correctionPercent,
  manualGiftSessions, calculation,
  \* refs: the pending timeouts, downPaymentTimeoutRef, isUserDragging and
  \* the pending 500 ms resets of it
  timers, timeoutRef, isUserDragging, dragResets,
  \* the downPayment captured by the memoised setSelectedPackage callback
  cbDownPayment,
  \* the male-pricing toggle of the service selector
  isMalePricing,
  \* the configuration rows the settings query read (0: key absent)
  config,
  \* input events handled while the pending 100 ms timeout has not yet run,
  \* and input events handled in all
  lag, events,
  \* a direct call of the pricing engine: its arguments and what it returned
  engineInput, engineResult,
  \* the offer POST /api/offers stored for that result, <<>> while there is none
  offer,
  \* the server: the subscription_types, sales and clients tables, the
  \* configuration row of the external service, the records the external
  \* service holds, and the POST /api/subscription requests in progress
  subscriptionTypes, sales, clients, yclientsConfig, yclientsRecords, requests,
  \* the client modal of each confirmation and the offers table
  modals, offers

engineVars == <<engineInput, engineResult, offer>>

modalVars == <<modals, offers>>

serverVars ==
  <<subscriptionTypes, sales, clients, yclientsConfig, yclientsRecords, requests>>

sessionVars ==
  <<selectedServices, procedureCount, downPayment, installmentMonths,
    usedCertificate, freeZones, selectedPackage, correctionPercent,
    manualGiftSessions, calculation, timers, timeoutRef, isUserDragging,
    dragResets, cbDownPayment, isMalePricing, config, lag, events>>

Undefined == -1

HasCalc == calculation # <<>>

Calc == calculation[1]

IsSelected(ss, id) == \E i \in 1..Len(ss) : ss[i].yclientsId = id

IsFreeZone(zones, id) == \E i \in 1..Len(zones) : zones[i].serviceId = id

\* servicesData entries use `sessionCount || 10`.
SessionCountOf(s) == JsOr(s.sessionCount, 10)

\* The price parsed for a selected service: customPrice if set, else the
\* catalogue priceMin.
EffectivePrice(s) == IF s.customPrice # 0 THEN s.customPrice ELSE PriceMin(s.yclientsId)

RECURSIVE BaseCostCountingAll(_, _)
BaseCostCountingAll(servicesData, zones) ==
  IF servicesData = <<>> THEN 0
  ELSE LET s == Head(servicesData)
       IN  EffectivePrice(s) * s.quantity * SessionCountOf(s)
             + BaseCostCountingAll(Tail(servicesData), zones)

\* calculateInstantly, the base-cost loop: free-zone services are skipped.
RECURSIVE BaseCost(_, _)
BaseCost(servicesData, zones) ==
  IF servicesData = <<>> THEN 0
  ELSE LET s == Head(servicesData)
       IN  (IF IsFreeZone(zones, s.yclientsId) THEN 0
            ELSE EffectivePrice(s) * s.quantity * SessionCountOf(s))
             + BaseCost(Tail(servicesData), zones)

RECURSIVE FreeZonesValue(_, _)
FreeZonesValue(zones, procedures) ==
  IF zones = <<>> THEN 0
  ELSE Head(zones).pricePerProcedure * Head(zones).quantity * procedures
         + FreeZonesValue(Tail(zones), procedures)

RECURSIVE TotalProcedures(_)
TotalProcedures(servicesData) ==
  IF servicesData = <<>> THEN 0
  ELSE Head(servicesData).quantity * SessionCountOf(Head(servicesData))
         + TotalProcedures(Tail(servicesData))

\* A variant that takes the gift sessions of the package rows only.
PackageConfigOfDefaults(gifts) ==
  [t \in PackageTypes |->
     [discount |-> Packages[t].discount,
      dynamicDiscount |-> 0,
      minCost |-> Packages[t].minCost,
      minDownPaymentPercent |-> Packages[t].minDownPaymentPercent,
      requiresFullPayment |-> Packages[t].requiresFullPayment,
      giftSessions |-> Packages[t].giftSessions]]

\* packages.reduce(...): the packageConfig object handed to the engine.
PackageConfig(gifts) ==
  [t \in PackageTypes |->
     [discount |-> Packages[t].discount,
      dynamicDiscount |-> 0,
      minCost |-> Packages[t].minCost,
      minDownPaymentPercent |-> Packages[t].minDownPaymentPercent,
      requiresFullPayment |-> Packages[t].requiresFullPayment,
      giftSessions |-> IF gifts[t] # Undefined THEN gifts[t] ELSE Packages[t].giftSessions]]

\* calculateInstantly on the values a timeout captured: <<>> is the null
\* calculation, <<r>> a result.
calculateInstantly(t) ==
  IF Len(t.servicesData) = 0 THEN <<>>
  ELSE <<calculatePackagePricing(
           BaseCost(t.servicesData, t.zones),
           [downPayment |-> t.payment,
            installmentMonths |-> t.months,
            usedCertificate |-> t.certificate,
            procedureCount |-> t.procedures,
            freeZonesValue |-> FreeZonesValue(t.zones, t.procedures),
            totalProcedures |-> TotalProcedures(t.servicesData),
            correctionPercent |-> t.correctionPercent,
            packageConfig |-> PackageConfig(t.manualGiftSessions)],
           calculatorSettingsOf(config))>>

\* ServiceSelector effect: the maximum sessionCount of the selection, 10 when
\* it is empty.
RECURSIVE MaxSessionCount(_)
MaxSessionCount(ss) ==
  IF ss = <<>> THEN 0
  ELSE Max2(SessionCountOf(Head(ss)), MaxSessionCount(Tail(ss)))

\* A variant that follows the first selected service only.
ProcedureCountOfFirst(ss) == IF Len(ss) > 0 THEN SessionCountOf(ss[1]) ELSE 10

DerivedProcedureCount(ss) == IF Len(ss) > 0 THEN MaxSessionCount(ss) ELSE 10


(***************************************************************************)
(* Rendering.  A handler's state updates are followed by one commit: the   *)
(* ServiceSelector effect re-derives procedureCount, the calculation       *)
(* effect runs debouncedCalculation when one of its dependencies changed,  *)
(* the availability effect deselects an unavailable package, and the       *)
(* memoised setSelectedPackage callback is rebuilt when calculation        *)
(* changed.                                                                *)
(***************************************************************************)
FreshTimerId(ts) == CHOOSE i \in 1..(Cardinality(ts) + 1) : \A t \in ts : t.id # i

\* A variant that leaves the previous timeout pending.
KeepTimeout(ts, ref) == ts

\* clearTimeout(ref): the timeout with that id is dropped, if still pending.
ClearTimeout(ts, ref) == {t \in ts : t.id # ref}

\* The closure debouncedCalculation hands to setTimeout.
Snapshot(id, ss, pc, dp, months, cert, zones, corr, gifts, dragging) ==
  [id |-> id, servicesData |-> ss, procedures |-> pc, payment |-> dp,
   months |-> months, certificate |-> cert, zones |-> zones,
   correctionPercent |-> corr, manualGiftSessions |-> gifts,
   delay |-> IF dragging THEN 100 ELSE 0]

\* The availability effect.
AvailabilityCheck(pkg, calc) ==
  IF pkg # NoPackage /\ calc # <<>> /\ ~calc[1].packages[pkg].isAvailable
  THEN NoPackage ELSE pkg

\* One commit after a handler.  depsChanged: a dependency of
\* debouncedCalculation other than procedureCount got a new value or
\* identity; calcChanged: calculation got a new identity.
Commit(ss, dp, months, cert, zones, pkg, corr, gifts, calc, ts, ref, dragging, depsChanged, calcChanged, byUser) ==
  LET pc == DerivedProcedureCount(ss)
      resched == depsChanged \/ pc # procedureCount
      kept == ClearTimeout(ts, ref)
      id == FreshTimerId(kept)
  IN  /\ selectedServices' = ss
      /\ procedureCount' = pc
      /\ downPayment' = dp
      /\ installmentMonths' = months
      /\ usedCertificate' = cert
      /\ freeZones' = zones
      /\ selectedPackage' = AvailabilityCheck(pkg, calc)
      /\ correctionPercent' = corr
      /\ manualGiftSessions' = gifts
      /\ calculation' = calc
      /\ isUserDragging' = dragging
      /\ cbDownPayment' = IF calcChanged THEN dp ELSE cbDownPayment
      /\ IF resched
         THEN /\ timers' = kept \cup
                   {Snapshot(id, ss, pc, dp, months, cert, zones, corr, gifts, dragging)}
              /\ timeoutRef' = id
         ELSE /\ timers' = ts
              /\ timeoutRef' = ref
      /\ lag' = IF byUser /\ ts # {} THEN lag + 1 ELSE 0
      /\ events' = IF byUser THEN events + 1 ELSE events
      /\ UNCHANGED <<config, engineVars, serverVars, modalVars>>

\* A 0 ms timeout runs before the next input event; a 100 ms one may not.
ImmediatePending == \E t \in timers : t.delay = 0

UserCanAct == events < MaxEvents /\ ~ImmediatePending /\ (timers # {} => lag < MaxLag)


(***************************************************************************)
(* Handlers of the calculator page.                                        *)
(***************************************************************************)
CorrectionInputs == {-50, 150}

TypedSessionInputs == {0}

GiftEdits == {<<"standard", 2>>, <<"standard", 1>>}

\* getAdjustedPrice: Math.round(price * 1.4) while male pricing is on.
getAdjustedPrice(basePrice) ==
  IF isMalePricing THEN MathRound(MulFrac(basePrice, 1400)) ELSE basePrice

NewService(id) ==
  [yclientsId |-> id, priceMin |-> getAdjustedPrice(PriceMin(id)),
   customPrice |-> getAdjustedPrice(PriceMin(id)),
   quantity |-> 1, sessionCount |-> 10]

RemoveById(ss, id) ==
  SelectSeqBy(ss, [s \in {ss[i] : i \in 1..Len(ss)} |-> s.yclientsId # id])

WithSessionCount(ss, id, n) ==
  [i \in 1..Len(ss) |->
     IF ss[i].yclientsId = id THEN [ss[i] EXCEPT !.sessionCount = n] ELSE ss[i]]

\* Every handler that replaces selectedServices or freeZones.
SelectionChange(ss, zones) ==
  /\ Commit(ss, downPayment, installmentMonths, usedCertificate, zones,
            selectedPackage, correctionPercent, manualGiftSessions, calculation,
            timers, timeoutRef, isUserDragging, TRUE, FALSE, TRUE)
  /\ UNCHANGED <<dragResets, isMalePricing>>

addService(id) ==
  /\ UserCanAct
  /\ ~IsSelected(selectedServices, id)
  /\ SelectionChange(Append(selectedServices, NewService(id)), freeZones)

removeService(id) ==
  /\ UserCanAct
  /\ IsSelected(selectedServices, id)
  /\ SelectionChange(RemoveById(selectedServices, id), freeZones)

updateSessionCount(id, n) ==
  /\ UserCanAct
  /\ IsSelected(selectedServices, id)
  /\ SelectionChange(WithSessionCount(selectedServices, id, n), freeZones)

\* A variant of saveSessionCount that stores what was typed.
saveSessionCountUnclamped(id, typed) ==
  /\ UserCanAct
  /\ IsSelected(selectedServices, id)
  /\ SelectionChange(WithSessionCount(selectedServices, id, JsOr(typed, 10)), freeZones)

\* parseInt of the typed text is 0 here when it is empty or not a number.
saveSessionCount(id, typed) ==
  /\ UserCanAct
  /\ IsSelected(selectedServices, id)
  /\ SelectionChange(
       WithSessionCount(selectedServices, id, Max2(3, Min2(20, JsOr(typed, 10)))),
       freeZones)

\* A variant without the test for an existing free zone of the service.
addFreeZoneUnguarded(id, limit) ==
  /\ UserCanAct
  /\ \E i \in 1..Len(selectedServices) :
       /\ selectedServices[i].yclientsId = id
       /\ Len(freeZones) < limit
       /\ SelectionChange(selectedServices,
            Append(freeZones,
              [serviceId |-> id,
               pricePerProcedure |-> JsOr(selectedServices[i].customPrice,
                                          selectedServices[i].priceMin),
               quantity |-> 1]))

\* handleDoubleClick on a selected service, with at most `limit` free zones.
addFreeZone(id, limit) ==
  /\ UserCanAct
  /\ \E i \in 1..Len(selectedServices) :
       /\ selectedServices[i].yclientsId = id
       /\ ~IsFreeZone(freeZones, id)
       /\ Len(freeZones) < limit
       /\ SelectionChange(selectedServices,
            Append(freeZones,
              [serviceId |-> id,
               pricePerProcedure |-> JsOr(selectedServices[i].customPrice,
                                          selectedServices[i].priceMin),
               quantity |-> 1]))

handleDoubleClick(id) == addFreeZone(id, MaxFreeZones)

\* savePrice: the typed price becomes customPrice.
savePrice(id, tempPrice) ==
  /\ UserCanAct
  /\ IsSelected(selectedServices, id)
  /\ SelectionChange(
       [i \in 1..Len(selectedServices) |->
          IF selectedServices[i].yclientsId = id
          THEN [selectedServices[i] EXCEPT !.customPrice = tempPrice]
          ELSE selectedServices[i]],
       freeZones)

\* Math.round(originalPrice / 1.4)
MaleToFemale(price) == MathRound((price * 10) \div 14)

\* handleMalePricingToggle: every selected service gets its price times 1.4
\* when the toggle goes on and divided by 1.4 when it goes off.
handleMalePricingToggle(enabled) ==
  /\ UserCanAct
  /\ isMalePricing' = enabled
  /\ Commit([i \in 1..Len(selectedServices) |->
              LET originalPrice == EffectivePrice(selectedServices[i])
                  newPrice ==
                    IF enabled
                    THEN (IF isMalePricing THEN originalPrice
                          ELSE MathRound(MulFrac(originalPrice, 1400)))
                    ELSE (IF isMalePricing THEN MaleToFemale(originalPrice)
                          ELSE originalPrice)
              IN  [selectedServices[i] EXCEPT !.customPrice = newPrice]],
            downPayment, installmentMonths, usedCertificate, freeZones,
            selectedPackage, correctionPercent, manualGiftSessions, calculation,
            timers, timeoutRef, isUserDragging, TRUE, FALSE, TRUE)
  /\ UNCHANGED dragResets

removeFreeZone(id) ==
  /\ UserCanAct
  /\ IsFreeZone(freeZones, id)
  /\ SelectionChange(selectedServices,
       SelectSeqBy(freeZones,
         [z \in {freeZones[i] : i \in 1..Len(freeZones)} |-> z.serviceId # id]))

\* The certificate checkbox is disabled below certificateMinCourseAmount.
setUsedCertificate ==
  /\ UserCanAct
  /\ HasCalc
  /\ Calc.baseCost >= calculatorSettingsOf(config).certificateMinCourseAmount
  /\ Commit(selectedServices, downPayment, installmentMonths, ~usedCertificate,
            freeZones, selectedPackage, correctionPercent, manualGiftSessions,
            calculation, timers, timeoutRef, isUserDragging, TRUE, FALSE, TRUE)
  /\ UNCHANGED <<dragResets, isMalePricing>>

\* The correction field clamps what was typed to [0, 10] percent; switching
\* the toggle off sets 0.
ClampCorrection(typed) == Min2(100, Max2(0, typed))

setCorrectionPercent(typed) ==
  /\ UserCanAct
  /\ LET v == ClampCorrection(typed)
     IN  /\ Commit(selectedServices, downPayment, installmentMonths, usedCertificate,
                   freeZones, selectedPackage, v, manualGiftSessions, calculation,
                   timers, timeoutRef, isUserDragging, v # correctionPercent, FALSE, TRUE)
         /\ UNCHANGED <<dragResets, isMalePricing>>

\* The installment slider is shown while downPayment is below the selected
\* package's finalCost (25000 without one).
InstallmentShown ==
  downPayment <
    (IF selectedPackage # NoPackage /\ HasCalc
     THEN JsOr(Calc.packages[selectedPackage].finalCost, Rub(25000))
     ELSE Rub(25000))

setInstallmentMonths(m) ==
  /\ UserCanAct
  /\ InstallmentShown
  /\ Commit(selectedServices, downPayment, m, usedCertificate, freeZones,
            selectedPackage, correctionPercent, manualGiftSessions, calculation,
            timers, timeoutRef, isUserDragging, m # installmentMonths, FALSE, TRUE)
  /\ UNCHANGED <<dragResets, isMalePricing>>

setManualGiftSessions(t, typed) ==
  /\ UserCanAct
  /\ HasCalc
  /\ Commit(selectedServices, downPayment, installmentMonths, usedCertificate,
            freeZones, selectedPackage, correctionPercent,
            [manualGiftSessions EXCEPT ![t] = Max2(0, Min2(10, typed))],
            calculation, timers, timeoutRef, isUserDragging, TRUE, FALSE, TRUE)
  /\ UNCHANGED <<dragResets, isMalePricing>>

\* getMinDownPayment / getMaxDownPayment of the current render.
\* A variant that uses the percentage of the package cost alone.
MinDownPaymentByPercentOnly(package, calc, settings) ==
  IF package = NoPackage \/ calc = <<>> THEN Rub(5000)
  ELSE MathRound(MulFrac(calc[1].packages[package].finalCost,
                         Packages[package].minDownPaymentPercent))

\* The body of getMinDownPayment on the values the render closes over.
MinDownPaymentOf(package, calc, settings) ==
  IF package = NoPackage \/ calc = <<>> THEN Rub(5000)
  ELSE LET packageData == calc[1].packages[package]
           packageConfig == Packages[package]
       IN  IF ~packageData.isAvailable THEN Rub(5000)
           ELSE IF packageConfig.requiresFullPayment THEN packageData.finalCost
           ELSE Max2(MathRound(MulFrac(packageData.finalCost,
                                         packageConfig.minDownPaymentPercent)),
                     JsOr(settings.minimumDownPayment, Rub(5000)))

getMinDownPayment ==
  MinDownPaymentOf(selectedPackage, calculation, calculatorSettingsOf(config))

getMaxDownPayment ==
  IF selectedPackage = NoPackage \/ ~HasCalc THEN Rub(50000)
  ELSE LET packageData == Calc.packages[selectedPackage]
       IN  IF ~packageData.isAvailable THEN Rub(50000) ELSE packageData.finalCost

\* The exported setDownPayment: marks the drag, sets the state and arms the
\* 500 ms reset of the mark.
setDownPaymentWrapped(value) ==
  /\ dragResets < MaxDragTimers
  /\ Commit(selectedServices, value, installmentMonths, usedCertificate, freeZones,
            selectedPackage, correctionPercent, manualGiftSessions, calculation,
            timers, timeoutRef, TRUE, value # downPayment, FALSE, TRUE)
  /\ dragResets' = dragResets + 1
  /\ UNCHANGED isMalePricing

\* The range input yields whole units between its min and max.
WholeUnits(m) == (m \div Mill) * Mill

paymentSlider ==
  /\ UserCanAct
  /\ selectedPackage # NoPackage
  /\ selectedPackage # "vip"
  /\ getMinDownPayment <= getMaxDownPayment
  /\ \E value \in {getMinDownPayment, WholeUnits(getMaxDownPayment)} :
       /\ value >= getMinDownPayment
       /\ setDownPaymentWrapped(value)

Constrain(numericValue) ==
  Max2(getMinDownPayment, Min2(getMaxDownPayment, numericValue))

\* onBlur / Enter of the typed down-payment field.
paymentTyped(numericValue) ==
  /\ UserCanAct
  /\ selectedPackage # "vip"
  /\ IF selectedPackage = "economy"
     THEN IF numericValue < getMinDownPayment /\ numericValue > 0
          THEN setDownPaymentWrapped(numericValue)
          ELSE setDownPaymentWrapped(Constrain(numericValue))
     ELSE setDownPaymentWrapped(Constrain(numericValue))

\* The exported setSelectedPackage.  calculation, packages and the settings
\* are those of the current render; downPayment is the one captured when the
\* callback was last rebuilt.
NewDownPayment(packageType, captured) ==
  LET packageData == Calc.packages[packageType]
      packageConfig == Packages[packageType]
  IN  IF packageData.isAvailable
      THEN IF packageConfig.requiresFullPayment THEN packageData.finalCost
           ELSE MathRound(Max2(MulFrac(packageData.finalCost,
                                       packageConfig.minDownPaymentPercent),
                               JsOr(calculatorSettingsOf(config).minimumDownPayment,
                                    Rub(5000))))
      ELSE captured

setSelectedPackage(packageType) ==
  /\ UserCanAct
  /\ HasCalc
  /\ Calc.packages[packageType].isAvailable
  /\ LET newDownPayment == NewDownPayment(packageType, cbDownPayment)
         dp == IF newDownPayment # cbDownPayment THEN newDownPayment ELSE downPayment
     IN  Commit(selectedServices, dp, installmentMonths, usedCertificate, freeZones,
                packageType, correctionPercent, manualGiftSessions, calculation,
                timers, timeoutRef, isUserDragging, dp # downPayment, FALSE, TRUE)
  /\ UNCHANGED <<dragResets, isMalePricing>>

\* The pending timeout runs calculateInstantly on what it captured.
timerFires ==
  \E t \in timers :
    LET calc == calculateInstantly(t)
    IN  /\ Commit(selectedServices, downPayment, installmentMonths, usedCertificate,
                  freeZones, selectedPackage, correctionPercent, manualGiftSessions,
                  calc, timers \ {t}, timeoutRef, isUserDragging, FALSE,
                  ~(calc = <<>> /\ calculation = <<>>), FALSE)
        /\ UNCHANGED <<dragResets, isMalePricing>>

\* setTimeout(() => isUserDragging.current = false, 500)
dragReset ==
  /\ dragResets > 0
  /\ dragResets' = dragResets - 1
  /\ isUserDragging' = FALSE
  /\ UNCHANGED <<selectedServices, procedureCount, downPayment, installmentMonths,
                 usedCertificate, freeZones, selectedPackage, correctionPercent,
                 manualGiftSessions, calculation, timers, timeoutRef, cbDownPayment,
                 isMalePricing, config, lag, events, engineVars, serverVars,
                 modalVars>>

(***************************************************************************)
(* A direct call of calculatePackagePricing.                               *)
(***************************************************************************)
EngineBaseCosts ==
  {0, Rub(6000), 19995 * Mill, Rub(20000), Rub(24999), Rub(25000), Rub(30000)}

EngineProcedureCounts == {0, 10, 14, 15}

EngineCorrections == {-50, 0, 33, 100, 150}

EngineDownPayments == {0, Rub(5000)}

EngineMonths == {0, 1, 2, 3}

EngineDynamicDiscounts == {0, 350}

EngineInputs ==
  [baseCost : EngineBaseCosts,
   usedCertificate : BOOLEAN,
   procedureCount : EngineProcedureCounts,
   correctionPercent : EngineCorrections,
   downPayment : EngineDownPayments,
   installmentMonths : EngineMonths,
   dynamicDiscount : EngineDynamicDiscounts,
   settings : {ConfigStored, ConfigAbsent}]

EnginePackageConfig(dynamicDiscount) ==
  [t \in PackageTypes |->
     [PackageConfig([u \in PackageTypes |-> Undefined])[t]
        EXCEPT !.dynamicDiscount = IF t = "economy" THEN dynamicDiscount ELSE 0]]

\* The params object of a direct call.
EngineParams(input) ==
  [downPayment |-> input.downPayment,
   installmentMonths |-> input.installmentMonths,
   usedCertificate |-> input.usedCertificate,
   procedureCount |-> input.procedureCount,
   freeZonesValue |-> 0,
   totalProcedures |-> input.procedureCount,
   correctionPercent |-> input.correctionPercent,
   packageConfig |-> EnginePackageConfig(input.dynamicDiscount)]

callEngine ==
  /\ engineResult = <<>>
  /\ engineResult' =
       <<calculatePackagePricing(engineInput.baseCost, EngineParams(engineInput),
                                 engineInput.settings)>>
  /\ UNCHANGED <<engineInput, offer, sessionVars, serverVars, modalVars>>


\* generatePaymentSchedule: the amounts of the schedule, the down payment
\* first; installmentMonths = 0 stands for an undefined one.
generatePaymentSchedule(downPayment_, finalCost, installmentMonths_) ==
  <<Quot(downPayment_, 1)>>
  \o (IF installmentMonths_ # 0 /\ installmentMonths_ > 1
      THEN [i \in 1..installmentMonths_ |->
              Quot(finalCost - downPayment_, installmentMonths_)]
      ELSE <<>>)

\* createAndSendOffer and POST /api/offers for package t of the result: the
\* server builds the schedule from the downPayment, finalCost and
\* installmentMonths of the request.
createOffer(t) ==
  /\ engineResult # <<>>
  /\ offer = <<>>
  /\ offer' =
       <<[selectedPackage |-> t,
          finalCost |-> engineResult[1].packages[t].finalCost,
          downPayment |-> engineInput.downPayment,
          paymentSchedule |->
            generatePaymentSchedule(
              engineInput.downPayment,
              engineResult[1].packages[t].finalCost,
              IF t = "vip" THEN 0 ELSE engineInput.installmentMonths)]>>
  /\ UNCHANGED <<engineInput, engineResult, sessionVars, serverVars, modalVars>>

(***************************************************************************)
(* The server: POST /api/subscription.  The handler of one request runs    *)
(* from one await to the next in a step; the steps of different requests   *)
(* interleave.                                                             *)
(***************************************************************************)
NumRequests == 2

Requests == 1..NumRequests

\* What a confirmation carries: the services of the course as
\* <<serviceId, sessionCount>> pairs, and finalCost.
Compositions ==
  {<<<<1, 10>>>>, <<<<1, 10>>, <<2, 15>>>>, <<<<2, 15>>, <<1, 10>>>>,
   <<<<1, 10>>, <<2, 14>>>>}

FinalCosts == {Rub(24000), 14336415}

Bodies == [services : Compositions, finalCost : FinalCosts, packageType : {"economy"}]

NoBody == [services |-> <<>>, finalCost |-> 0, packageType |-> NoPackage]

NoRecord == [id |-> 0, cost |-> 0, links |-> <<>>]

\* A numeric(10,2) column keeps two decimals, rounding halves away from zero.
Numeric2(m) == ((m + 5) \div 10) * 10

PairLeq(a, b) == a[1] < b[1] \/ (a[1] = b[1] /\ a[2] <= b[2])

RECURSIVE Insert(_, _)
Insert(x, sorted) ==
  IF sorted = <<>> THEN <<x>>
  ELSE IF PairLeq(x, Head(sorted)) THEN <<x>> \o sorted
       ELSE <<Head(sorted)>> \o Insert(x, Tail(sorted))

\* map(...).sort().join('|'): the pairs in one fixed order.
RECURSIVE ServiceKey(_)
ServiceKey(pairs) ==
  IF pairs = <<>> THEN <<>> ELSE Insert(Head(pairs), ServiceKey(Tail(pairs)))

\* subscriptionTypes.find(...): the first row whose cost and service key
\* both match; 0 when there is none.
RECURSIVE FindFrom(_, _, _, _)
FindFrom(rows, i, services, cost) ==
  IF i > Len(rows) THEN 0
  ELSE IF rows[i].cost = cost /\ ServiceKey(rows[i].links) = ServiceKey(services)
       THEN rows[i].id
       ELSE FindFrom(rows, i + 1, services, cost)

findSubscriptionType(services, cost) == FindFrom(subscriptionTypes, 1, services, cost)

\* insert ... on conflict (yclients_id) do update ... returning
upsertSubscriptionType(rows, record) ==
  IF \E i \in 1..Len(rows) : rows[i].yclientsId = record.id
  THEN [i \in 1..Len(rows) |->
          IF rows[i].yclientsId = record.id
          THEN [rows[i] EXCEPT !.cost = Numeric2(record.cost), !.links = record.links]
          ELSE rows[i]]
  ELSE Append(rows, [id |-> Len(rows) + 1, yclientsId |-> record.id,
                     cost |-> Numeric2(record.cost), links |-> record.links])

\* The external service answers a creation with the record it stored.
createSubscriptionType(body) ==
  [id |-> Len(yclientsRecords) + 1, cost |-> body.finalCost, links |-> body.services]

\* A variant that goes on to save the sale after a failed step.
ProceedUnresolved(req, step) == [req EXCEPT !.pc = "save", !.failed = step]

\* The catch block: the response is 500 and the handler ends.
Throw(req, step) == [req EXCEPT !.pc = "done", !.response = 500, !.failed = step]

Responded == {r \in Requests : requests[r].response # 0}

\* The request arrives; the client row is found or created and the
\* configuration of the external service is read.
postSubscription(r, body) ==
  /\ requests[r].pc = "idle"
  /\ clients' = clients \cup {1}
  /\ requests' =
       [requests EXCEPT ![r] =
          IF yclientsConfig
          THEN [@ EXCEPT !.pc = "find", !.body = body, !.after = Responded]
          ELSE [@ EXCEPT !.pc = "done", !.body = body, !.after = Responded,
                         !.response = 400]]
  /\ UNCHANGED <<subscriptionTypes, sales, yclientsConfig, yclientsRecords,
                 sessionVars, engineVars, modalVars>>

\* storage.findSubscriptionType; ok = FALSE: the query throws.
findStep(r, ok) ==
  /\ requests[r].pc = "find"
  /\ requests' =
       [requests EXCEPT ![r] =
          IF ok
          THEN LET found == findSubscriptionType(@.body.services, @.body.finalCost)
               IN  [@ EXCEPT !.subscriptionType = found,
                             !.pc = IF found # 0 THEN "save" ELSE "create"]
          ELSE Throw(@, "lookup")]
  /\ UNCHANGED <<subscriptionTypes, sales, clients, yclientsConfig, yclientsRecords,
                 sessionVars, engineVars, modalVars>>

\* yclientsService.createSubscriptionType; ok = FALSE: the response is not
\* ok and the call throws.
createStep(r, ok) ==
  /\ requests[r].pc = "create"
  /\ IF ok
     THEN LET record == createSubscriptionType(requests[r].body)
          IN  /\ yclientsRecords' = Append(yclientsRecords, record)
              /\ requests' = [requests EXCEPT ![r] =
                                [@ EXCEPT !.pc = "upsert", !.created = record]]
     ELSE /\ requests' = [requests EXCEPT ![r] = Throw(@, "create")]
          /\ UNCHANGED yclientsRecords
  /\ UNCHANGED <<subscriptionTypes, sales, clients, yclientsConfig,
                 sessionVars, engineVars, modalVars>>

upsertStep(r) ==
  /\ requests[r].pc = "upsert"
  /\ LET rows == upsertSubscriptionType(subscriptionTypes, requests[r].created)
         row == CHOOSE x \in {rows[i] : i \in 1..Len(rows)} :
                  x.yclientsId = requests[r].created.id
     IN  /\ subscriptionTypes' = rows
         /\ requests' = [requests EXCEPT ![r] =
                           [@ EXCEPT !.pc = "save", !.subscriptionType = row.id]]
  /\ UNCHANGED <<sales, clients, yclientsConfig, yclientsRecords,
                 sessionVars, engineVars, modalVars>>

\* storage.createSale and the 200 response.
saveStep(r) ==
  /\ requests[r].pc = "save"
  /\ sales' = Append(sales, [id |-> Len(sales) + 1, request |-> r,
                             subscriptionTypeId |-> requests[r].subscriptionType,
                             selectedPackage |-> requests[r].body.packageType,
                             finalCost |-> Numeric2(requests[r].body.finalCost)])
  /\ requests' = [requests EXCEPT ![r] = [@ EXCEPT !.pc = "done", !.response = 200]]
  /\ UNCHANGED <<subscriptionTypes, clients, yclientsConfig, yclientsRecords,
                 sessionVars, engineVars, modalVars>>

(***************************************************************************)
(* The client modal of each confirmation: handleSubmit after the response  *)
(* of POST /api/subscription, and createAndSendOffer.                      *)
(***************************************************************************)
\* useState of the modal; subscriptionTitle 0 is the empty string, and a
\* title is given by the id of its subscription type.  toast is the last
\* toast the modal raised.
ModalOpened ==
  [step |-> "awaiting", isCompleted |-> FALSE, subscriptionTitle |-> 0,
   offerSent |-> FALSE, offerId |-> 0, toast |-> "none"]

\* What the modal shows besides the title: the completed view, the notice
\* under `offerSent &&`, and the toast.
Shown(m) == <<m.isCompleted, m.offerSent, m.toast>>

SaleOf(r) == CHOOSE s \in {sales[i] : i \in 1..Len(sales)} : s.request = r

\* A variant whose failed confirmation clears the package selection.
handleSubmitFailsAndResets(r, outcome) ==
  /\ UserCanAct
  /\ modals[r].step = "awaiting"
  /\ outcome = "rejected" => (selectedPackage # NoPackage /\ HasCalc)
  /\ modals' = [modals EXCEPT ![r] = [@ EXCEPT !.step = "error", !.toast = "error"]]
  /\ selectedPackage' = NoPackage
  /\ UNCHANGED <<selectedServices, procedureCount, downPayment, installmentMonths,
                 usedCertificate, freeZones, correctionPercent, manualGiftSessions,
                 calculation, timers, timeoutRef, isUserDragging, dragResets,
                 cbDownPayment, isMalePricing, config, lag, events, offers,
                 engineVars, serverVars>>

\* handleSubmit of the modal opened over the calculator, when it does not
\* succeed.  "invalid": the phone number fails validation (or no package is
\* selected) and the handler returns after its toast; "rejected": the
\* request was sent and the response is not ok, which is thrown to the
\* toast of the catch.  The modal reads the session through its props and
\* is given no setter.
handleSubmitFails(r, outcome) ==
  /\ UserCanAct
  /\ modals[r].step = "awaiting"
  /\ outcome = "rejected" => (selectedPackage # NoPackage /\ HasCalc)
  /\ modals' =
       [modals EXCEPT ![r] =
          IF outcome = "invalid" THEN [@ EXCEPT !.toast = "error"]
          ELSE [@ EXCEPT !.step = "error", !.toast = "error"]]
  /\ UNCHANGED <<offers, sessionVars, engineVars, serverVars>>

\* response.ok: the title of the response is shown and the modal is
\* completed, then createAndSendOffer starts; otherwise the error is thrown
\* to the toast of handleSubmit.
handleSubmitResponse(r) ==
  /\ modals[r].step = "awaiting"
  /\ requests[r].response # 0
  /\ modals' =
       [modals EXCEPT ![r] =
          IF requests[r].response = 200
          THEN [@ EXCEPT !.subscriptionTitle = requests[r].subscriptionType,
                         !.isCompleted = TRUE, !.step = "createOffer"]
          ELSE [@ EXCEPT !.step = "error", !.toast = "error"]]
  /\ UNCHANGED <<offers, sessionVars, engineVars, serverVars>>

\* A variant whose failed contract step takes the completed view back.
OfferFailureResetsModal(m) ==
  [m EXCEPT !.step = "offerFailed", !.isCompleted = FALSE, !.subscriptionTitle = 0]

\* The catch of createAndSendOffer: console.error and nothing else.
OfferFailed(m) == [m EXCEPT !.step = "offerFailed"]

\* POST /api/offers; ok = FALSE: the response is not ok or the fetch throws.
postOffer(r, ok) ==
  /\ modals[r].step = "createOffer"
  /\ IF ok
     THEN /\ offers' = Append(offers, [id |-> Len(offers) + 1,
                                       saleId |-> SaleOf(r).id, status |-> "draft"])
          /\ modals' = [modals EXCEPT ![r] =
                          [@ EXCEPT !.step = "sendOffer", !.offerId = Len(offers) + 1]]
     ELSE /\ modals' = [modals EXCEPT ![r] = OfferFailed(@)]
          /\ UNCHANGED offers
  /\ UNCHANGED <<sessionVars, engineVars, serverVars>>

\* POST /api/offers/:id/send; ok = FALSE: the PDF or the e-mail fails.
sendOffer(r, ok) ==
  /\ modals[r].step = "sendOffer"
  /\ IF ok
     THEN /\ offers' = [offers EXCEPT ![modals[r].offerId].status = "sent"]
          /\ modals' = [modals EXCEPT ![r] =
                          [@ EXCEPT !.step = "sent", !.offerSent = TRUE,
                                    !.toast = "offerSent"]]
     ELSE /\ modals' = [modals EXCEPT ![r] = OfferFailed(@)]
          /\ UNCHANGED offers
  /\ UNCHANGED <<sessionVars, engineVars, serverVars>>

\* handleClose, once handleSubmit has returned.
handleClose(r) ==
  /\ modals[r].step \in {"error", "offerFailed", "sent"}
  /\ modals' = [modals EXCEPT ![r] =
                  [@ EXCEPT !.step = "closed", !.isCompleted = FALSE,
                            !.subscriptionTitle = 0, !.offerSent = FALSE]]
  /\ UNCHANGED <<offers, sessionVars, engineVars, serverVars>>

vars == <<sessionVars, engineVars, serverVars, modalVars>>

SessionInit ==
  /\ selectedServices = <<>>
  /\ procedureCount = 10
  /\ downPayment = 0
  /\ installmentMonths = 2
  /\ usedCertificate = FALSE
  /\ freeZones = <<>>
  /\ selectedPackage = NoPackage
  /\ correctionPercent = 0
  /\ manualGiftSessions = [t \in PackageTypes |-> Packages[t].giftSessions]
  /\ calculation = <<>>
  /\ lag = 0
  /\ events = 0
  /\ timers = {Snapshot(1, <<>>, 10, 0, 2, FALSE, <<>>, 0,
                        [t \in PackageTypes |-> Packages[t].giftSessions], FALSE)}
  /\ timeoutRef = 1
  /\ isUserDragging = FALSE
  /\ dragResets = 0
  /\ cbDownPayment = 0
  /\ isMalePricing = FALSE

EngineIdle ==
  /\ engineInput = CHOOSE i \in EngineInputs : TRUE
  /\ engineResult = <<>>
  /\ offer = <<>>

ServerInit ==
  /\ subscriptionTypes = <<>>
  /\ sales = <<>>
  /\ clients = {}
  /\ yclientsRecords = <<>>
  /\ requests = [r \in Requests |->
                   [pc |-> "idle", body |-> NoBody, after |-> {},
                    subscriptionType |-> 0, created |-> NoRecord,
                    response |-> 0, failed |-> "none"]]
  /\ modals = [r \in Requests |-> ModalOpened]
  /\ offers = <<>>

\* The calculator session.
Init ==
  /\ SessionInit
  /\ config \in {ConfigStored, ConfigAbsent}
  /\ EngineIdle
  /\ ServerInit
  /\ yclientsConfig = TRUE

Next ==
  \/ \E id \in ServiceIds : addService(id)
  \/ \E id \in ServiceIds : removeService(id)
  \/ \E id \in ServiceIds, n \in SessionChoices : updateSessionCount(id, n)
  \/ \E id \in ServiceIds, typed \in TypedSessionInputs : saveSessionCount(id, typed)
  \/ \E id \in ServiceIds : handleDoubleClick(id)
  \/ \E id \in ServiceIds : removeFreeZone(id)
  \/ setUsedCertificate
  \/ \E typed \in CorrectionInputs \cup {0} : setCorrectionPercent(typed)
  \/ \E m \in MonthChoices : setInstallmentMonths(m)
  \/ \E e \in GiftEdits : setManualGiftSessions(e[1], e[2])
  \/ paymentSlider
  \/ \E v \in TypedPayments : paymentTyped(v)
  \/ \E p \in PackageTypes : setSelectedPackage(p)
  \/ timerFires
  \/ dragReset

Spec == Init /\ [][Next]_vars

\* Direct calls of the pricing engine, one per behaviour.
InitEngine ==
  /\ SessionInit
  /\ config = ConfigStored
  /\ engineInput \in EngineInputs
  /\ engineResult = <<>>
  /\ offer = <<>>
  /\ ServerInit
  /\ yclientsConfig = TRUE

NextEngine ==
  \/ callEngine
  \/ \E t \in PackageTypes : createOffer(t)

SpecEngine == InitEngine /\ [][NextEngine]_vars

\* Confirmations arriving at the server.
InitServer ==
  /\ SessionInit
  /\ config = ConfigStored
  /\ EngineIdle
  /\ ServerInit
  /\ yclientsConfig \in BOOLEAN

NextServer ==
  \/ \E r \in Requests, body \in Bodies : postSubscription(r, body)
  \/ \E r \in Requests, ok \in BOOLEAN : findStep(r, ok)
  \/ \E r \in Requests, ok \in BOOLEAN : createStep(r, ok)
  \/ \E r \in Requests : upsertStep(r)
  \/ \E r \in Requests : saveStep(r)

SpecServer == InitServer /\ [][NextServer]_vars

\* The confirmations together with the modals that sent them.
NextModal ==
  \/ NextServer
  \/ \E r \in Requests : handleSubmitResponse(r)
  \/ \E r \in Requests, ok \in BOOLEAN : postOffer(r, ok)
  \/ \E r \in Requests, ok \in BOOLEAN : sendOffer(r, ok)
  \/ \E r \in Requests : handleClose(r)

SpecModal == InitServer /\ [][NextModal]_vars

\* The service selector alone, with the whole range of what can be typed
\* and dragged.
SliderCounts == {3, 15, 20}

TypedCounts == {-5, 0, 100}

TypedPrices == {Rub(2000)}

MaxSelectorZones == 2

NextSelector ==
  \/ \E id \in ServiceIds : addService(id)
  \/ \E id \in ServiceIds : removeService(id)
  \/ \E id \in ServiceIds, n \in SliderCounts : updateSessionCount(id, n)
  \/ \E id \in ServiceIds, typed \in TypedCounts : saveSessionCount(id, typed)
  \/ \E id \in ServiceIds, tempPrice \in TypedPrices : savePrice(id, tempPrice)
  \/ \E enabled \in BOOLEAN : handleMalePricingToggle(enabled)
  \/ \E id \in ServiceIds : addFreeZone(id, MaxSelectorZones)
  \/ \E id \in ServiceIds : removeFreeZone(id)
  \/ timerFires

SpecSelector == Init /\ [][NextSelector]_vars

\* The calculator session with the confirmations that fail.
NextConfirm ==
  \/ Next
  \/ \E outcome \in {"invalid", "rejected"} : handleSubmitFails(1, outcome)

SpecConfirm == Init /\ [][NextConfirm]_vars

(***************************************************************************)
(* Properties.                                                             *)
(***************************************************************************)
EngineCalled == engineResult # <<>>

\* C1: for every package of every result calculatePackagePricing returns,
\* finalCost + totalSavings equals baseCost, whatever the base cost,
\* certificate flag, procedure count, correction percent, package
\* configuration and settings.
SavingsIdentity ==
  EngineCalled =>
    \A t \in PackageTypes :
      engineResult[1].packages[t].finalCost + engineResult[1].packages[t].totalSavings
        = engineResult[1].baseCost

\* A call in which the certificate, the bulk discount and the correction all
\* applied and gift sessions were granted.
SavingsIdentityWitness ==
  /\ EngineCalled
  /\ engineInput.usedCertificate
  /\ engineInput.correctionPercent = 33
  /\ engineInput.procedureCount = 15
  /\ engineInput.baseCost = Rub(30000)
  /\ Len(engineResult[1].packages["vip"].appliedDiscounts) = 5
  /\ engineResult[1].packages["vip"].totalSavings > 0

RECURSIVE SumExcludingGifts(_)
SumExcludingGifts(entries) ==
  IF entries = <<>> THEN 0
  ELSE (IF Head(entries).type = "gift_sessions" THEN 0 ELSE Head(entries).amount)
         + SumExcludingGifts(Tail(entries))

EntryTypes(entries) == {entries[i].type : i \in 1..Len(entries)}

WithoutFreeZones(ss, zones) ==
  SelectSeqBy(ss, [s \in {ss[i] : i \in 1..Len(ss)} |-> ~IsFreeZone(zones, s.yclientsId)])

\* C3: the baseCost the hook computes for a selection with free zones is the
\* baseCost of the selection with the free-zone services removed, both for
\* what a pending recomputation captured and for the calculation in place.
FreeZoneExclusion ==
  /\ \A t \in timers :
       BaseCost(t.servicesData, t.zones)
         = BaseCost(WithoutFreeZones(t.servicesData, t.zones), <<>>)
  /\ (timers = {} /\ HasCalc) =>
       Calc.baseCost = BaseCost(WithoutFreeZones(selectedServices, freeZones), <<>>)

\* A settled calculation of two services one of which is a free zone.
FreeZoneExclusionWitness ==
  /\ timers = {}
  /\ HasCalc
  /\ Len(selectedServices) = 2
  /\ \E i \in 1..2 : IsFreeZone(freeZones, selectedServices[i].yclientsId)
  /\ Calc.baseCost > 0
  /\ Calc.freeZonesValue > 0

\* C4: selecting a package that requires full payment leaves downPayment
\* equal to that package's finalCost and its monthlyPayment 0, whatever held
\* before the selection.
FullPaymentOnSelection ==
  [][\A t \in PackageTypes :
       (Packages[t].requiresFullPayment /\ setSelectedPackage(t)) =>
         /\ downPayment' = calculation'[1].packages[t].finalCost
         /\ calculation'[1].packages[t].monthlyPayment.num = 0]_vars

\* C5: in every settled state in which the selected package requires full
\* payment, downPayment is that package's current finalCost.
FullPaymentPinned ==
  (timers = {} /\ HasCalc /\ selectedPackage # NoPackage
     /\ Packages[selectedPackage].requiresFullPayment) =>
    downPayment = Calc.packages[selectedPackage].finalCost

\* C6: a change of the selected package to one that does not require full
\* payment leaves downPayment at the minimum down payment of the new
\* package, the value getMinDownPayment then returns.
DownPaymentResetOnChange ==
  [][\A t \in PackageTypes :
       (~Packages[t].requiresFullPayment /\ selectedPackage # t
          /\ setSelectedPackage(t)) =>
         /\ downPayment' = getMinDownPayment'
         /\ downPayment' = NewDownPayment(t, downPayment)]_vars

\* C7: after a recomputation the selected package, if any, is available in
\* the calculation; in particular nothing stays selected when the
\* calculation became null.
NoUnavailableSelection ==
  [][timerFires =>
       (selectedPackage' # NoPackage =>
          /\ calculation' # <<>>
          /\ calculation'[1].packages[selectedPackage'].isAvailable)]_vars

CurrentSnapshot(id, delay) ==
  [Snapshot(id, selectedServices, procedureCount, downPayment, installmentMonths,
            usedCertificate, freeZones, correctionPercent, manualGiftSessions, FALSE)
     EXCEPT !.delay = delay]

\* C8: at most one recomputation is pending; the pending one is the one last
\* scheduled and it captured the current values of the state; when none is
\* pending the calculation in place is the one of the current values.
SinglePendingRecomputation ==
  /\ Cardinality(timers) <= 1
  /\ \A t \in timers : t.id = timeoutRef /\ t = CurrentSnapshot(t.id, t.delay)
  /\ timers = {} => calculation = calculateInstantly(CurrentSnapshot(0, 0))

\* A pending recomputation that superseded another: it differs from the
\* calculation in place by two inputs set one after the other.
SinglePendingRecomputationWitness ==
  /\ HasCalc
  /\ lag = 1
  /\ \E t \in timers :
       /\ t.delay = 100
       /\ t.certificate
       /\ t.correctionPercent > 0
       /\ EntryTypes(Calc.packages["economy"].appliedDiscounts)
            \cap {"certificate", "correction"} = {}

Confirmed(r) == requests[r].response = 200

\* The same {serviceId: sessionCount} pairs.
SameComposition(a, b) ==
  /\ Len(a) = Len(b)
  /\ {a[i] : i \in 1..Len(a)} = {b[i] : i \in 1..Len(b)}

\* One sessionCount differs by 1, everything else is the same.
OneCountApart(a, b) ==
  /\ Len(a) = Len(b)
  /\ \E x \in {a[i] : i \in 1..Len(a)}, y \in {b[i] : i \in 1..Len(b)} :
       /\ x[1] = y[1]
       /\ x[2] - y[2] \in {1, -1}
       /\ {a[i] : i \in 1..Len(a)} \ {x} = {b[i] : i \in 1..Len(b)} \ {y}

\* C9: of two confirmations made one after the other with the same service
\* composition and the same finalCost, the second resolves to the
\* subscription type of the first and creates nothing; with one sessionCount
\* changed by 1 the second creates a new record.
DuplicateResolvesToSameRecord ==
  \A r1, r2 \in Requests :
    (r1 # r2 /\ Confirmed(r1) /\ Confirmed(r2) /\ r1 \in requests[r2].after
       /\ requests[r1].body.finalCost = requests[r2].body.finalCost) =>
      /\ SameComposition(requests[r1].body.services, requests[r2].body.services) =>
           /\ requests[r2].subscriptionType = requests[r1].subscriptionType
           /\ requests[r2].created = NoRecord
      /\ OneCountApart(requests[r1].body.services, requests[r2].body.services) =>
           /\ requests[r2].subscriptionType # requests[r1].subscriptionType
           /\ requests[r2].created # NoRecord

\* C10: a request whose lookup or creation of the subscription type failed
\* has answered with an error and saved no sale, and every sale refers to a
\* row of subscription_types.
FailedConfirmationSavesNothing ==
  /\ \A r \in Requests :
       requests[r].failed # "none" =>
         /\ requests[r].response = 500
         /\ \A i \in 1..Len(sales) : sales[i].request # r
  /\ \A i \in 1..Len(sales) :
       \E j \in 1..Len(subscriptionTypes) :
         subscriptionTypes[j].id = sales[i].subscriptionTypeId

\* One confirmation failed at the creation of the subscription type and
\* another one was saved.
FailedConfirmationSavesNothingWitness ==
  \E r1, r2 \in Requests :
    /\ requests[r1].failed = "create"
    /\ requests[r1].response = 500
    /\ Confirmed(r2)
    /\ Len(sales) = 1

\* What the pricing engine yields for a submitted selection: catalogue
\* prices, one unit of each service, no certificate, correction or free zone.
RECURSIVE SubmittedBaseCost(_)
SubmittedBaseCost(services) ==
  IF services = <<>> THEN 0
  ELSE PriceMin(Head(services)[1]) * Head(services)[2] + SubmittedBaseCost(Tail(services))

RECURSIVE SubmittedMaxSessions(_)
SubmittedMaxSessions(services) ==
  IF services = <<>> THEN 0
  ELSE Max2(Head(services)[2], SubmittedMaxSessions(Tail(services)))

SubmittedPricing(body) ==
  PackagePricing(SubmittedBaseCost(body.services),
                 [downPayment |-> 0, installmentMonths |-> 0, usedCertificate |-> FALSE,
                  procedureCount |-> SubmittedMaxSessions(body.services),
                  correctionPercent |-> 0],
                 PackageConfig([t \in PackageTypes |-> Undefined])[body.packageType],
                 calculatorSettingsOf(ConfigAbsent))

\* C11: the finalCost saved with a sale is the one the pricing engine yields
\* for the selection the request submitted, not the figure the request
\* carried.
SaleCarriesServerPrice ==
  \A i \in 1..Len(sales) :
    sales[i].finalCost
      = Numeric2(SubmittedPricing(requests[sales[i].request].body).finalCost)

\* C12: the schedule stored with an offer starts with the down payment and,
\* when the engine reports a non-zero monthlyPayment for N months, goes on
\* with exactly N entries, each the engine's monthlyPayment.
ScheduleMatchesMonthlyPayment ==
  offer # <<>> =>
    LET sched == offer[1].paymentSchedule
        p == engineResult[1].packages[offer[1].selectedPackage]
        n == engineInput.installmentMonths
    IN  /\ Head(sched) = Quot(engineInput.downPayment, 1)
        /\ p.monthlyPayment.num # 0 =>
             /\ Len(sched) = 1 + n
             /\ \A i \in 2..Len(sched) : sched[i] = p.monthlyPayment

Settled == timers = {} /\ HasCalc

\* The largest sessionCount among the selected services.
LargestSessionCount ==
  LET counts == {SessionCountOf(selectedServices[i]) : i \in 1..Len(selectedServices)}
  IN  CHOOSE m \in counts : \A c \in counts : c <= m

RECURSIVE SumOfSessions(_)
SumOfSessions(ss) ==
  IF ss = <<>> THEN 0 ELSE SessionCountOf(Head(ss)) + SumOfSessions(Tail(ss))

RECURSIVE AmountOfType(_, _)
AmountOfType(entries, type) ==
  IF entries = <<>> THEN 0
  ELSE (IF Head(entries).type = type THEN Head(entries).amount ELSE 0)
         + AmountOfType(Tail(entries), type)

\* C13: with the threshold at 15, a selection whose largest sessionCount is
\* 14 or less gets no bulk discount and no bulk entry, whatever the sum of
\* its session counts; one whose largest sessionCount is 15 or more gets
\* baseCost times the bulk percentage.
BulkThresholdBoundary ==
  Settled =>
    \A t \in PackageTypes :
      LET entries == Calc.packages[t].appliedDiscounts
      IN  /\ LargestSessionCount <= 14 =>
               /\ "bulk" \notin EntryTypes(entries)
               /\ Calc.packages[t].totalSavings
                    = AmountOfType(entries, "package") + AmountOfType(entries, "certificate")
                        + AmountOfType(entries, "correction")
          /\ LargestSessionCount >= 15 =>
               AmountOfType(entries, "bulk")
                 = MulFrac(Calc.baseCost,
                           calculatorSettingsOf(config).bulkDiscountPercentage)

\* Two services with 14 and 10 sessions: 24 in all, 14 at most.
BulkThresholdBoundaryWitness ==
  /\ Settled
  /\ Len(selectedServices) = 2
  /\ LargestSessionCount = 14
  /\ SumOfSessions(selectedServices) = 24
  /\ Calc.baseCost > 0

\* C14: with the certificate used, a baseCost below
\* certificateMinCourseAmount gets no certificate discount and one at or
\* above it gets exactly certificateDiscountAmount; without the certificate
\* the discount is zero.  The discount is read off appliedDiscounts.
CertificateGating ==
  EngineCalled =>
    \A t \in PackageTypes :
      LET entries == engineResult[1].packages[t].appliedDiscounts
          minimum == JsOr(engineInput.settings.certificateMinCourseAmount, Rub(25000))
          amount == JsOr(engineInput.settings.certificateDiscountAmount, Rub(3000))
      IN  AmountOfType(entries, "certificate")
            = IF engineInput.usedCertificate /\ engineInput.baseCost >= minimum
              THEN amount ELSE 0

\* The certificate used on a baseCost one unit below the minimum.
CertificateGatingWitness ==
  /\ EngineCalled
  /\ engineInput.usedCertificate
  /\ engineInput.baseCost = Rub(25000) - Rub(1)
  /\ "certificate" \notin EntryTypes(engineResult[1].packages["economy"].appliedDiscounts)

\* The correction discount a package's result carries: its totalSavings less
\* the listed discounts of the other types.
AppliedCorrection(package) ==
  package.totalSavings
    - (SumExcludingGifts(package.appliedDiscounts)
         - AmountOfType(package.appliedDiscounts, "correction"))

ExampleServices ==
  <<[yclientsId |-> 1, priceMin |-> Rub(2000), customPrice |-> Rub(2000),
     quantity |-> 1, sessionCount |-> 10]>>

ExampleCall ==
  /\ EngineCalled
  /\ engineInput.baseCost = BaseCost(ExampleServices, <<>>)
  /\ engineInput.procedureCount = 10
  /\ ~engineInput.usedCertificate
  /\ engineInput.correctionPercent = 0
  /\ engineInput.dynamicDiscount = 0
  /\ engineInput.settings = ConfigStored

\* C16: one service of price 2000, quantity 1 and 10 sessions, the economy
\* package (discount 0.20, minCost 10000, minDownPaymentPercent 0.01), the
\* stored settings, no certificate, no correction and no free zones give
\* baseCost 20000, a package discount of 4000, isAvailable, finalCost 16000,
\* totalSavings 4000 and a minimum down payment of 5000.
WorkedExample ==
  ExampleCall =>
    LET economy == engineResult[1].packages["economy"]
    IN  /\ engineResult[1].baseCost = Rub(20000)
        /\ AmountOfType(economy.appliedDiscounts, "package") = Rub(4000)
        /\ economy.isAvailable
        /\ economy.finalCost = Rub(16000)
        /\ economy.totalSavings = Rub(4000)
        /\ MinDownPaymentOf("economy", engineResult, engineInput.settings) = Rub(5000)

WorkedExampleWitness ==
  /\ ExampleCall
  /\ engineInput.downPayment = Rub(5000)
  /\ engineInput.installmentMonths = 2
  /\ engineResult[1].packages["economy"].finalCost = Rub(16000)

\* The result of the same call with another baseCost.
ResultAt(baseCost) ==
  calculatePackagePricing(baseCost, EngineParams(engineInput), engineInput.settings)

\* C17: a package is available exactly when baseCost >= its minCost; with
\* the rest of the call fixed, a package available at one baseCost is
\* available at every larger one; an unavailable package still carries its
\* finalCost, totalSavings and appliedDiscounts.
AvailabilityByMinCost ==
  EngineCalled =>
    \A t \in PackageTypes :
      LET package == engineResult[1].packages[t]
          pc == EnginePackageConfig(engineInput.dynamicDiscount)[t]
      IN  /\ package.isAvailable <=> engineInput.baseCost >= pc.minCost
          /\ \A larger \in EngineBaseCosts :
               (larger >= engineInput.baseCost /\ package.isAvailable)
                 => ResultAt(larger).packages[t].isAvailable
          /\ ~package.isAvailable =>
               /\ package.finalCost = engineInput.baseCost - package.totalSavings
               /\ package.totalSavings
                    = MulFrac(engineInput.baseCost, PackageDiscountRate(pc))
                        + AmountOfType(package.appliedDiscounts, "bulk")
                        + AmountOfType(package.appliedDiscounts, "certificate")
                        + CorrectionDiscount(engineInput.baseCost,
                                             engineInput.correctionPercent)
               /\ AmountOfType(package.appliedDiscounts, "package")
                    = MulFrac(engineInput.baseCost, PackageDiscountRate(pc))

\* A call at the vip package's minCost exactly, where vip is available and
\* standard, with its larger minCost, is not and is still priced.
AvailabilityByMinCostWitness ==
  /\ EngineCalled
  /\ engineInput.baseCost = Rub(25000)
  /\ engineResult[1].packages["vip"].isAvailable
  /\ ~engineResult[1].packages["standard"].isAvailable
  /\ engineResult[1].packages["standard"].totalSavings > 0
  /\ engineResult[1].packages["standard"].finalCost < Rub(25000)

\* C18: in every calculation of the session no package has a negative
\* monthlyPayment: the payment is (finalCost - downPayment) /
\* installmentMonths only where that balance is positive, and 0 otherwise.
MonthlyPaymentNeverNegative ==
  HasCalc =>
    \A t \in PackageTypes : Calc.packages[t].monthlyPayment.num >= 0

\* C19: once the recomputation of the current selection has run, a baseCost
\* of 0 leaves no calculation, both with no service selected and with every
\* selected service a free zone.
ZeroBaseCostGivesNoCalculation ==
  (timers = {} /\ BaseCost(selectedServices, freeZones) = 0) => ~HasCalc

\* C20: after a contract step that failed, the sale of the confirmation is
\* still stored as it was saved, the confirmation still counts as
\* succeeded, and the modal is completed and shows the title of the created
\* subscription.
ContractFailureKeepsSale ==
  \A r \in Requests :
    modals[r].step = "offerFailed" =>
      /\ requests[r].response = 200
      /\ requests[r].failed = "none"
      /\ \E i \in 1..Len(sales) :
           /\ sales[i].request = r
           /\ sales[i].subscriptionTypeId = requests[r].subscriptionType
           /\ sales[i].finalCost = Numeric2(requests[r].body.finalCost)
      /\ modals[r].isCompleted
      /\ modals[r].subscriptionTitle = requests[r].subscriptionType
      /\ modals[r].subscriptionTitle # 0

\* A confirmation whose contract was created and then could not be sent.
ContractFailureKeepsSaleWitness ==
  \E r \in Requests :
    /\ modals[r].step = "offerFailed"
    /\ modals[r].offerId # 0
    /\ offers[modals[r].offerId].status = "draft"
    /\ \E i \in 1..Len(sales) : sales[i].request = r

\* C21: a modal whose contract step has failed shows something that a modal
\* whose contract has not been created or sent yet does not show, so that a
\* failed delivery can be told from one not attempted.
ContractFailureIsShown ==
  \A r, q \in Requests :
    (modals[r].step = "offerFailed" /\ modals[q].step \in {"createOffer", "sendOffer"})
      => Shown(modals[r]) # Shown(modals[q])

\* C22: a confirmation that fails, by validation or by a response that is
\* not ok, leaves selectedServices, freeZones, selectedPackage, downPayment,
\* installmentMonths, usedCertificate, correctionPercent and
\* manualGiftSessions as they were.
FailedConfirmationKeepsSession ==
  [][modals' # modals =>
       UNCHANGED <<selectedServices, freeZones, selectedPackage, downPayment,
                   installmentMonths, usedCertificate, correctionPercent,
                   manualGiftSessions>>]_vars

\* A rejected confirmation of a session with a service, a package and a down
\* payment.
FailedConfirmationKeepsSessionWitness ==
  /\ modals[1].step = "error"
  /\ Len(selectedServices) > 0
  /\ selectedPackage = "economy"
  /\ downPayment > 0

\* C23: with no calculator setting stored, the prices of the session use
\* the documented defaults: a bulk discount, where one is given, of 0.025 of
\* baseCost, and a certificate discount, where one is given, of 3000.
DocumentedDefaultsUsed ==
  (config = ConfigAbsent /\ HasCalc) =>
    \A t \in PackageTypes :
      /\ AmountOfType(Calc.packages[t].appliedDiscounts, "bulk")
           \in {0, MulFrac(Calc.baseCost, 25)}
      /\ AmountOfType(Calc.packages[t].appliedDiscounts, "certificate")
           \in {0, Rub(3000)}

\* C24: every selected service has a sessionCount within 3..20, whatever
\* is added, typed, dragged, repriced or toggled.
SessionCountWithinRange ==
  \A i \in 1..Len(selectedServices) :
    selectedServices[i].sessionCount >= 3 /\ selectedServices[i].sessionCount <= 20

\* Both ends reached by typing: -5 is stored as 3 and 100 as 20.
SessionCountWithinRangeWitness ==
  /\ Len(selectedServices) = 2
  /\ selectedServices[1].sessionCount = 3
  /\ selectedServices[2].sessionCount = 20
  /\ isMalePricing

\* C25: freeZones never holds two free zones of one serviceId.
OneFreeZonePerService ==
  \A i, j \in 1..Len(freeZones) :
    i # j => freeZones[i].serviceId # freeZones[j].serviceId

\* Both services selected and each of them a free zone.
OneFreeZonePerServiceWitness ==
  /\ Len(freeZones) = 2
  /\ \A id \in ServiceIds : IsFreeZone(freeZones, id) /\ IsSelected(selectedServices, id)

\* C26: procedureCount is the largest sessionCount of the selected services,
\* and 10 when none is selected, after every operation of the session.
ProcedureCountIsMaximum ==
  LET counts == {selectedServices[i].sessionCount : i \in 1..Len(selectedServices)}
  IN  IF counts = {} THEN procedureCount = 10
      ELSE /\ procedureCount \in counts
           /\ \A c \in counts : c <= procedureCount

\* Two services whose second has the larger sessionCount, with a package
\* selected afterwards.
ProcedureCountIsMaximumWitness ==
  /\ Len(selectedServices) = 2
  /\ selectedServices[1].sessionCount < selectedServices[2].sessionCount
  /\ procedureCount = 15
  /\ selectedPackage # NoPackage

\* The calculation of the current values with no gift session at all.
WithoutGiftSessions ==
  calculateInstantly(
    [CurrentSnapshot(0, 0) EXCEPT !.manualGiftSessions = [t \in PackageTypes |-> 0]])

GiftEntries(entries) == SelectSeq(entries, LAMBDA e : e.type = "gift_sessions")

\* C27: the gift sessions of a package change nothing of its finalCost,
\* totalSavings and monthlyPayment, which are those of the same selection
\* without gift sessions; the gift_sessions entry carries giftSessions *
\* baseCost / maxSessionCount for the gift sessions in force, the manual
\* value where one was entered.
GiftSessionsAreInformational ==
  Settled =>
    \A t \in PackageTypes :
      LET package == Calc.packages[t]
          plain == WithoutGiftSessions[1].packages[t]
          value == Quot(Calc.baseCost * manualGiftSessions[t], procedureCount)
      IN  /\ package.finalCost = plain.finalCost
          /\ package.totalSavings = plain.totalSavings
          /\ package.monthlyPayment = plain.monthlyPayment
          /\ GiftEntries(package.appliedDiscounts)
               = IF value.num > 0
                 THEN <<Entry("gift_sessions", value.num, value.den)>> ELSE <<>>

\* The standard package with 2 gift sessions entered over its default of 1.
GiftSessionsAreInformationalWitness ==
  /\ Settled
  /\ manualGiftSessions["standard"] = 2
  /\ Packages["standard"].giftSessions = 1
  /\ GiftEntries(Calc.packages["standard"].appliedDiscounts) # <<>>

\* Neither request arrived after the other had answered.
Concurrent(r1, r2) == r1 \notin requests[r2].after /\ r2 \notin requests[r1].after

\* C28: two requests processed concurrently with the same service
\* composition and the same finalCost (one the cost column stores exactly)
\* do not both create an external subscription-type record.
ConcurrentDuplicatesCreateOneRecord ==
  \A r1, r2 \in Requests :
    (/\ r1 # r2
     /\ Concurrent(r1, r2)
     /\ SameComposition(requests[r1].body.services, requests[r2].body.services)
     /\ requests[r1].body.finalCost = requests[r2].body.finalCost
     /\ Numeric2(requests[r1].body.finalCost) = requests[r1].body.finalCost)
      => ~(requests[r1].created # NoRecord /\ requests[r2].created # NoRecord)

\* C29: while a package that is available and does not require full payment
\* is selected, getMinDownPayment() <= downPayment <= getMaxDownPayment().
DownPaymentWithinBounds ==
  (/\ Settled
   /\ selectedPackage # NoPackage
   /\ Calc.packages[selectedPackage].isAvailable
   /\ ~Packages[selectedPackage].requiresFullPayment)
    => /\ getMinDownPayment <= getMaxDownPayment
       /\ getMinDownPayment <= downPayment
       /\ downPayment <= getMaxDownPayment

\* C30: every free zone refers to a service that is currently selected, so
\* that removing a service removes its free zone with it.
FreeZonesReferToSelectedServices ==
  \A i \in 1..Len(freeZones) : IsSelected(selectedServices, freeZones[i].serviceId)

====
